---------------------------- MODULE Spec2Model ----------------------------
(***************************************************************************)
(* A model of the diffusion library's orchestration code:                  *)
(*   - SDEManager / DiffusionManager (managers/sde.py, managers/diffusion.py)*)
(*     construction, predict, sampling, sampling_step, test;               *)
(*   - EMAOptimizer and EMAParameterContext (optim/ema.py);                *)
(*   - the values of forward_diffusion and of sampling_step's index        *)
(*     arithmetic (managers/sde.py), and the linear beta schedule.         *)
(* Tensors are modelled by their shape (a sequence of dimensions) and by   *)
(* the history of reverse steps applied to the seed noise.  Real numbers   *)
(* of the EMA arithmetic are exact rationals over a common denominator.    *)
(***************************************************************************)
EXTENDS Integers, Sequences, FiniteSets, TLC

(***************************************************************************)
(* Bounds of the model.                                                    *)
(***************************************************************************)
MaxTimeSteps == 2
MaxN == 2
MaxBatch == 2
MaxBetaLen == 2
MaxBatches == 1
NumParams == 2
MaxSteps == 2
MaxDepth == 2
DecayDen == 4
MaxNum == 2
MaxDenom == 2
MaxScheduleLen == 4
MaxSdeT == 3

VARIABLES
    \* ---- SDEManager instance (managers/sde.py, managers/diffusion.py)
    constructed,    \* the constructor has returned normally
    sde,            \* kind of self.sde: "VE", "VP", "SubVP" ("none" before construction)
    sdeN,           \* self.sde.N
    sdeT,           \* self.sde.T
    beta_space,     \* self.beta_space: 0 for None, else the length of its betas
    is_continous,   \* self.is_continous
    time_steps,     \* self.time_steps
    modelDevice,    \* where self.model lives: "cpu" or "device"
    cache,          \* device cache: "empty" after devices.empty_cache(), else "dirty"
    \* ---- the running call (predict / sampling / test)
    pc,             \* "idle", "sampling", "test_loop", "ended"
    caller,         \* who called sampling: "none" (direct), "predict", "test"
    num_images,     \* sampling's num_images
    condition,      \* sampling's condition: "None" or a tensor name
    default_range,  \* sampling_range was None on entry
    sampling_range, \* sampling's sampling_range after line 127, as a sequence
    remaining,      \* the indices of sampling_range not yet iterated
    x_t,            \* the shape of sampling's x_t (the seed noise)
    imgs,           \* [shape, hist]: the current imgs tensor
    calls,          \* the sampling_step calls of the running sampling, in order
    samplingBar,    \* sampling's progress_bar: "none", "open", "closed"
    testBar,        \* test's progress_bar: "none", "open", "closed"
    testArgs,       \* test's arguments while it runs
    batchesLeft,    \* batches of the dataset not yet iterated by test
    outcome,        \* how the last call ended
    fd,             \* what the last forward_diffusion call was given and returned
    \* ---- EMAOptimizer instance (optim/ema.py)
    built,          \* EMAOptimizer.__init__ has returned normally
    ema_decay,      \* self.ema_decay, in units of 1/DecayDen (0: not set)
    param,          \* data of self.model.parameters(), in units of 1/den
    shadow,         \* data of self.ema_model.parameters(), in units of 1/den
    den,            \* the common denominator of param and shadow
    scopes,         \* the entered EMAParameterContext objects, innermost last
    baseSteps,      \* calls of base_optimizer.step so far
    last,           \* the last operation on the optimizer
    \* ---- values computed by the numerical routines
    fwdVals,        \* forward_diffusion: one element's mean, std, z, x_t and noise
    stepVals,       \* sampling_step: one element's t, timestep and sigma lookups
    schedule        \* the BetaSpace a scheduler computed, and its reference

mgrVars == <<constructed, sde, sdeN, sdeT, beta_space, is_continous, time_steps>>
devVars == <<modelDevice, cache>>
callVars == <<pc, caller, num_images, condition, default_range, sampling_range, remaining,
              x_t, imgs, calls, samplingBar, testBar, testArgs, batchesLeft, outcome, fd>>
emaVars == <<built, ema_decay, param, shadow, den, scopes, baseSteps, last>>
managerVars == <<mgrVars, devVars, callVars>>
fnVars == <<fwdVals, stepVals, schedule>>
vars == <<managerVars, emaVars, fnVars>>

(***************************************************************************)
(* Tensor shapes and broadcasting (torch semantics of x + y, x * y, x / y).*)
(***************************************************************************)
Max(a, b) == IF a >= b THEN a ELSE b

\* shape s left-padded with ones to length n
PadShape(s, n) == [k \in 1..n |-> IF k <= n - Len(s) THEN 1 ELSE s[k - (n - Len(s))]]

Broadcastable(s1, s2) ==
    LET n == Max(Len(s1), Len(s2))
        a == PadShape(s1, n)
        b == PadShape(s2, n)
    IN  \A k \in 1..n : a[k] = b[k] \/ a[k] = 1 \/ b[k] = 1

Broadcast(s1, s2) ==
    LET n == Max(Len(s1), Len(s2))
        a == PadShape(s1, n)
        b == PadShape(s2, n)
    IN  [k \in 1..n |-> IF a[k] = 1 THEN b[k] ELSE a[k]]

Ones(n) == [k \in 1..n |-> 1]

\* v[:, None, None, None] for a tensor of shape s: three new axes after the first
Expand3(s) == <<s[1], 1, 1, 1>> \o SubSeq(s, 2, Len(s))


(***************************************************************************)
(* Python's range(start, stop, step) for step 1 or -1, as the sequence of  *)
(* the values it yields.                                                   *)
(***************************************************************************)
PyRange(start, stop, step) ==
    IF step = 1
    THEN [k \in 1..Max(stop - start, 0) |-> start + (k - 1)]
    ELSE [k \in 1..Max(start - stop, 0) |-> start - (k - 1)]

\* sampling_range = range(self.time_steps, 1) if sampling_range is None
DefaultRange(ts) == PyRange(ts, 1, 1)

(***************************************************************************)
(* The SDE classes (package diffusion.sde).                                *)
(***************************************************************************)
SdeKinds == {"VE", "VP", "SubVP"}
SdeTs == {1, 2}
Widths == {2}

IsVESDE(k) == k = "VE"
IsVPSDE(k) == k = "VP"
IsSubVPSDE(k) == k = "SubVP"

\* len(sde.discrete_sigmas)
DiscreteSigmasLen(N) == N

\* the shape of the prediction network's output for an input x
NetShape(xshape) == xshape

\* the shapes of marginal_prob's std and of discretize's (f, G)
MarginalStdShape(n) == <<n>>
DiscretizeFShape(xshape, n) ==
    IF Broadcastable(xshape, <<n, 1, 1, 1>>) THEN Broadcast(xshape, <<n, 1, 1, 1>>) ELSE <<>>
DiscretizeGShape(n) == <<n>>

(***************************************************************************)
(* Exceptions.                                                             *)
(***************************************************************************)
IsException(e) == e # "KeyboardInterrupt" /\ e # "none"

Ok(shape) == [ok |-> TRUE, exc |-> "none", shape |-> shape]
Raise(e) == [ok |-> FALSE, exc |-> e, shape |-> <<>>]

(***************************************************************************)
(* SDEManager.forward(data) with y_train = None: the shape of y.           *)
(***************************************************************************)
Forward(kind, cont, betaLen, xshape, n) ==
    LET score == NetShape(xshape)
    IN  IF IsSubVPSDE(kind) \/ (cont /\ IsVPSDE(kind))
        THEN IF Broadcastable(score, MarginalStdShape(n))
             THEN Ok(Broadcast(score, MarginalStdShape(n)))
             ELSE Raise("RuntimeError")
        ELSE IF IsVPSDE(kind)
        THEN IF betaLen = 0 THEN Raise("AssertionError")
             ELSE IF Broadcastable(score, <<betaLen>>)
             THEN Ok(Broadcast(score, <<betaLen>>))
             ELSE Raise("RuntimeError")
        ELSE IF IsVESDE(kind) THEN Ok(score)
        ELSE Raise("NotImplementedError")

\* timestep = (data.t * (self.sde.N - 1) / self.sde.T).long(), every t being i >= 0
Timestep(i, N, T) == (i * (N - 1)) \div T

(***************************************************************************)
(* SDEManager.sampling_step(data, i): the shape of y, or the exception.    *)
(* data.x has shape xshape, data.t has shape (n,) and holds i.             *)
(***************************************************************************)
StepVE(cont, N, T, xshape, n, i) ==
    LET timestep == Timestep(i, N, T)
        len == DiscreteSigmasLen(N)
        inRange(k) == -len <= k /\ k < len
        coef == <<n, 1, 1, 1>>
    IN  IF ~inRange(timestep) \/ ~inRange(timestep - 1) THEN Raise("IndexError")
        ELSE IF ~Broadcastable(xshape, coef) THEN Raise("RuntimeError")
        ELSE Ok(Broadcast(xshape, coef))

StepVP(cont, N, T, betaLen, xshape, n, i) ==
    LET timestep == Timestep(i, N, T)
        beta == <<n>> \o Ones(Len(xshape) - 1)
        coef == Expand3(beta)
        fwd == Forward("VP", cont, betaLen, xshape, n)
    IN  IF betaLen = 0 THEN Raise("AssertionError")
        ELSE IF ~(0 <= timestep /\ timestep < betaLen) THEN Raise("RuntimeError")
        ELSE IF ~fwd.ok THEN fwd
        ELSE IF ~Broadcastable(coef, fwd.shape) THEN Raise("RuntimeError")
        ELSE IF ~Broadcastable(xshape, Broadcast(coef, fwd.shape)) THEN Raise("RuntimeError")
        ELSE Ok(Broadcast(xshape, Broadcast(coef, fwd.shape)))

StepGeneric(xshape, n) ==
    LET f == DiscretizeFShape(xshape, n)
        g == Expand3(DiscretizeGShape(n))
    IN  IF f = <<>> \/ ~Broadcastable(g, NetShape(xshape)) THEN Raise("RuntimeError")
        ELSE IF ~Broadcastable(f, Broadcast(g, NetShape(xshape))) THEN Raise("RuntimeError")
        ELSE Ok(Broadcast(xshape, Broadcast(f, Broadcast(g, NetShape(xshape)))))

sampling_step(kind, cont, N, T, betaLen, xshape, n, i) ==
    IF IsVESDE(kind) THEN StepVE(cont, N, T, xshape, n, i)
    ELSE IF IsVPSDE(kind) THEN StepVP(cont, N, T, betaLen, xshape, n, i)
    ELSE StepGeneric(xshape, n)


(***************************************************************************)
(* Arguments the callers pass.                                             *)
(***************************************************************************)
\* explicit step ranges: range(a, 0, -1), and range(time_steps - 1, -1, -1)
StepRanges == {PyRange(a, 0, -1) : a \in 0..MaxTimeSteps} \cup {PyRange(MaxTimeSteps - 1, -1, -1)}
RangeArgs == {[given |-> FALSE, seq |-> <<>>]} \cup {[given |-> TRUE, seq |-> r] : r \in StepRanges}
NoiseShapes == {<<b, 1, 1, w>> : b \in 1..MaxBatch, w \in Widths}
ImageSizes == {<<1, 1, w>> : w \in Widths} \cup {<<0, 1, 1>>}
Conditions == {"None", "c"}

NoOutcome ==
    [op |-> "none", kind |-> "none", exc |-> "none", cause |-> "none", where |-> "none",
     origin |-> "none",
     n |-> 0, seed |-> <<>>, len |-> 0, elem |-> <<>>, hist |-> <<>>, ncalls |-> 0,
     dflt |-> FALSE, range |-> <<>>]
NoTest == [empty_cache |-> TRUE, range |-> <<>>, batch |-> <<>>, dflt |-> FALSE]
NoImgs == [shape |-> <<>>, hist |-> <<>>]

\* DiffusionData(x, t, condition=None), x given by its shape
NoCondition == "None"
DiffusionData(x, t, cond) == [x |-> x, t |-> t, condition |-> cond]
NoFd == [op |-> "none", given |-> NoCondition, tgiven |-> FALSE, data |-> <<>>,
         sample |-> DiffusionData(<<>>, <<>>, NoCondition)]

\* an EMAParameterContext: what the optimizer held when it was entered, and
\* whether a parameter-writing call other than a nested scope ran inside it
Params == 1..NumParams
NoValues == [j \in Params |-> 0]
NoFrame == [param |-> NoValues, shadow |-> NoValues, den |-> 0, touched |-> FALSE,
            stepped |-> FALSE, swapped |-> FALSE]
NoLast ==
    [op |-> "none", exc |-> "none", arg |-> 0, decay0 |-> 0, param0 |-> NoValues,
     shadow0 |-> NoValues, den0 |-> 0, pbase |-> NoValues, base0 |-> 0,
     ret |-> "None", baseRet |-> "None", run |-> 0, raised |-> FALSE, frame |-> NoFrame]

(***************************************************************************)
(* Real numbers of the tensor arithmetic: exact rationals <<n, d>>, d > 0. *)
(***************************************************************************)
Rat(n, d) == <<n, d>>
RAdd(a, b) == <<a[1] * b[2] + b[1] * a[2], a[2] * b[2]>>
RMul(a, b) == <<a[1] * b[1], a[2] * b[2]>>
\* a / b for b # 0
RDiv(a, b) == IF b[1] > 0 THEN <<a[1] * b[2], a[2] * b[1]>>
              ELSE <<-(a[1] * b[2]), -(a[2] * b[1])>>
REq(a, b) == a[1] * b[2] = b[1] * a[2]
RZero == Rat(0, 1)
ROne == Rat(1, 1)

NoFwdVals == [op |-> "none", mean |-> RZero, std |-> ROne, z |-> RZero, x |-> RZero,
              noise |-> RZero]
NoStepVals == [op |-> "none", kind |-> "none", t |-> 0, N |-> 0, T |-> 0, timestep |-> 0, reads |-> {},
               sigma |-> 0, adjacent |-> 0, exc |-> "none"]
NoSchedule == [op |-> "none", T |-> 0, betas |-> <<>>, den |-> 1, ref |-> <<>>]

Init ==
    /\ constructed = FALSE
    /\ sde = "none"
    /\ sdeN = 0
    /\ sdeT = 0
    /\ beta_space = 0
    /\ is_continous = FALSE
    /\ time_steps = 0
    /\ modelDevice = "cpu"
    /\ cache = "empty"
    /\ pc = "idle"
    /\ caller = "none"
    /\ num_images = 0
    /\ condition = "None"
    /\ default_range = FALSE
    /\ sampling_range = <<>>
    /\ remaining = <<>>
    /\ x_t = <<>>
    /\ imgs = NoImgs
    /\ calls = <<>>
    /\ samplingBar = "none"
    /\ testBar = "none"
    /\ testArgs = NoTest
    /\ batchesLeft = 0
    /\ outcome = NoOutcome
    /\ fd = NoFd
    /\ built = FALSE
    /\ ema_decay = 0
    /\ param = [j \in Params |-> j]
    /\ shadow = NoValues
    /\ den = 1
    /\ scopes = <<>>
    /\ baseSteps = 0
    /\ last = NoLast
    /\ fwdVals = NoFwdVals
    /\ stepVals = NoStepVals
    /\ schedule = NoSchedule

(***************************************************************************)
(* SDEManager.__init__(model, sde, time_steps, beta_space, is_continous).  *)
(* The check of the parameters: the exception raised, or "none".           *)
(***************************************************************************)
InitCheckNone(kind, betaLen) == "none"

InitCheck(kind, betaLen) ==
    IF IsVPSDE(kind) /\ betaLen = 0 THEN "ValueError" ELSE "none"

Construct ==
    /\ ~constructed
    /\ pc = "idle"
    /\ \E kind \in SdeKinds, N \in 1..MaxN, T \in SdeTs, betaLen \in 0..MaxBetaLen,
          cont \in BOOLEAN, ts \in 1..MaxTimeSteps :
         LET e == InitCheck(kind, betaLen)
         IN  /\ outcome' = [NoOutcome EXCEPT !.op = "construct",
                               !.kind = IF e = "none" THEN "return" ELSE "raise",
                               !.exc = e, !.elem = <<kind>>, !.len = betaLen]
             /\ IF e = "none"
                THEN /\ constructed' = TRUE
                     /\ sde' = kind
                     /\ sdeN' = N
                     /\ sdeT' = T
                     /\ beta_space' = betaLen
                     /\ is_continous' = cont
                     /\ time_steps' = ts
                ELSE UNCHANGED mgrVars
    /\ UNCHANGED <<devVars, pc, caller, num_images, condition, default_range, sampling_range, remaining,
                   x_t, imgs, calls, samplingBar, testBar, testArgs, batchesLeft>>
    /\ UNCHANGED <<fd, emaVars, fnVars>>

(***************************************************************************)
(* DiffusionManager.sampling: the statements before the loop.              *)
(***************************************************************************)
SamplingEnter(who, n, xshape, cond, range, verbose) ==
    /\ pc' = "sampling"
    /\ caller' = who
    /\ num_images' = n
    /\ condition' = cond
    /\ x_t' = xshape
    /\ imgs' = [shape |-> xshape, hist |-> <<>>]
    /\ samplingBar' = IF verbose THEN "open" ELSE "none"
    /\ default_range' = ~range.given
    /\ sampling_range' = (IF range.given THEN range.seq ELSE DefaultRange(time_steps))
    /\ remaining' = IF range.given THEN range.seq ELSE DefaultRange(time_steps)
    /\ calls' = <<>>

\* the locals of a finished call
ClearCall ==
    /\ pc' = "ended"
    /\ caller' = "none"
    /\ num_images' = 0
    /\ condition' = "None"
    /\ default_range' = FALSE
    /\ sampling_range' = <<>>
    /\ remaining' = <<>>
    /\ x_t' = <<>>
    /\ imgs' = NoImgs
    /\ calls' = <<>>
    /\ testArgs' = NoTest
    /\ batchesLeft' = 0

\* a direct call of sampling(num_images, x_t, condition, sampling_range=, show_verbose=)
Sampling ==
    /\ constructed
    /\ pc = "idle"
    /\ \E n \in 1..MaxBatch, xshape \in NoiseShapes, cond \in Conditions,
          range \in RangeArgs, verbose \in BOOLEAN :
         SamplingEnter("none", n, xshape, cond, range, verbose)
    /\ outcome' = NoOutcome
    /\ testBar' = "none"
    /\ UNCHANGED <<mgrVars, devVars, testArgs, batchesLeft>>
    /\ UNCHANGED <<fd, emaVars, fnVars>>


(***************************************************************************)
(* How predict and test end.                                               *)
(***************************************************************************)
\* predict: "except Exception as error: raise PredictionError() from error"
PredictExcept(e) ==
    IF IsException(e)
    THEN [kind |-> "raise", exc |-> "PredictionError", cause |-> e]
    ELSE [kind |-> "raise", exc |-> e, cause |-> "none"]

PredictFinallySkipped(dev, ch) == [modelDevice |-> dev, cache |-> ch]

\* predict: "finally: self.model = self.raw_model.to(cpu); devices.empty_cache()"
PredictFinally(dev, ch) == [modelDevice |-> "cpu", cache |-> "empty"]

\* test: "except KeyboardInterrupt: return {}" and
\*       "except Exception as error: raise TestingError() from error"
TestExcept(e) ==
    IF e = "KeyboardInterrupt"
    THEN [kind |-> "return", exc |-> "none", cause |-> "none"]
    ELSE [kind |-> "raise", exc |-> "TestingError", cause |-> e]

\* test: "finally: ... if empty_cache: self.to(cpu); ...; devices.empty_cache()"
TestFinally(empty_cache, dev, ch) ==
    IF empty_cache THEN [modelDevice |-> "cpu", cache |-> "empty"]
    ELSE [modelDevice |-> dev, cache |-> ch]

\* test: "finally: if progress_bar is not None: progress_bar.close()"
TestBarClosed(bar) == IF bar = "none" THEN "none" ELSE "closed"

\* what is known of the running call when it ends
CallOutcome(cs) ==
    [NoOutcome EXCEPT !.op = IF caller = "none" THEN "sampling" ELSE caller,
                      !.where = "try", !.n = num_images, !.seed = x_t,
                      !.hist = imgs.hist, !.ncalls = Len(cs), !.dflt = default_range,
                      !.range = sampling_range]

EndCall(o, dev, tb) ==
    /\ outcome' = o
    /\ modelDevice' = dev.modelDevice
    /\ cache' = dev.cache
    /\ testBar' = tb
    /\ ClearCall
    /\ UNCHANGED <<mgrVars, samplingBar>>

\* exception e leaves the running sampling (or test loop) and reaches the handlers
Propagate(e, cs) ==
    LET base == [CallOutcome(cs) EXCEPT !.origin = e]
        here == [modelDevice |-> modelDevice, cache |-> cache]
    IN  IF caller = "predict"
        THEN LET h == PredictExcept(e)
             IN  EndCall([base EXCEPT !.kind = h.kind, !.exc = h.exc, !.cause = h.cause],
                         PredictFinally(modelDevice, cache), testBar)
        ELSE IF caller = "test"
        THEN LET h == TestExcept(e)
             IN  EndCall([base EXCEPT !.kind = h.kind, !.exc = h.exc, !.cause = h.cause],
                         TestFinally(testArgs.empty_cache, modelDevice, cache),
                         TestBarClosed(testBar))
        ELSE EndCall([base EXCEPT !.kind = "raise", !.exc = e], here, testBar)

(***************************************************************************)
(* DiffusionManager.predict(num_images, image_size, condition, noises,     *)
(* show_verbose).                                                          *)
(***************************************************************************)
PredictImgs(n, image_size, noises) == IF noises = <<>> THEN <<n>> \o image_size ELSE noises

\* the asserts before the try block: the exception raised, or "none"
PredictValidate(n, image_size, noises) ==
    IF ~(image_size[1] > 0 /\ image_size[2] > 0) THEN "ValueError"
    ELSE IF ~(n > 0) THEN "ValueError"
    ELSE IF ~(PredictImgs(n, image_size, noises)[1] >= n) THEN "ValueError"
    ELSE "none"

Predict ==
    /\ constructed
    /\ pc = "idle"
    /\ \E n \in 0..MaxBatch, image_size \in ImageSizes, cond \in Conditions,
          noises \in {<<>>} \cup NoiseShapes, verbose \in BOOLEAN :
         LET e == PredictValidate(n, image_size, noises)
         IN  IF e # "none"
             THEN /\ outcome' = [NoOutcome EXCEPT !.op = "predict", !.kind = "raise",
                                    !.exc = e, !.origin = e, !.where = "pre", !.n = n]
                  /\ pc' = "ended"
                  /\ UNCHANGED <<devVars, caller, num_images, condition, default_range, sampling_range,
                                 remaining, x_t, imgs, calls, samplingBar>>
             ELSE /\ modelDevice' = "device"
                  /\ cache' = "dirty"
                  /\ SamplingEnter("predict", n, PredictImgs(n, image_size, noises), cond,
                                   [given |-> FALSE, seq |-> <<>>], verbose)
                  /\ outcome' = NoOutcome
    /\ testBar' = "none"
    /\ UNCHANGED <<mgrVars, testArgs, batchesLeft>>
    /\ UNCHANGED <<fd, emaVars, fnVars>>

(***************************************************************************)
(* One iteration of sampling's loop "for i in sampling_range".             *)
(***************************************************************************)
LoopCallWithoutCondition(i, x, n, cond) ==
    [i |-> i, x |-> x, tlen |-> n, tval |-> i, condition |-> NoCondition]

\* "t = torch.full((num_images,), i, ...); x = DiffusionData(imgs, t, condition=condition)"
\* and the call "self.sampling_step(x, i)"
LoopCall(i, x, n, cond) ==
    [i |-> i, x |-> x, tlen |-> n, tval |-> i, condition |-> cond]

SamplingIter ==
    /\ pc = "sampling"
    /\ remaining # <<>>
    /\ LET i == Head(remaining)
           call == LoopCall(i, imgs, num_images, condition)
           y == sampling_step(sde, is_continous, sdeN, sdeT, beta_space, imgs.shape,
                              num_images, i)
       IN  IF y.ok
           THEN /\ imgs' = [shape |-> y.shape, hist |-> Append(imgs.hist, i)]
                /\ remaining' = Tail(remaining)
                /\ calls' = Append(calls, call)
                /\ UNCHANGED <<mgrVars, devVars, pc, caller, num_images, condition,
                               default_range, sampling_range, x_t, samplingBar, testBar, testArgs,
                               batchesLeft, outcome>>
           ELSE Propagate(y.exc, Append(calls, call))
    /\ UNCHANGED <<fd, emaVars, fnVars>>

\* "return [img for img in imgs]", and what the caller does with it
SamplingReturn ==
    /\ pc = "sampling"
    /\ remaining = <<>>
    /\ LET o == [CallOutcome(calls) EXCEPT !.kind = "return", !.len = imgs.shape[1],
                                           !.elem = Tail(imgs.shape)]
           here == [modelDevice |-> modelDevice, cache |-> cache]
       IN  IF caller = "predict" THEN EndCall(o, PredictFinally(modelDevice, cache), testBar)
           ELSE IF caller = "none" THEN EndCall(o, here, testBar)
           ELSE \* test: the metrics are computed, the progress bar is updated
                /\ pc' = "test_loop"
                /\ batchesLeft' = batchesLeft - 1
                /\ num_images' = 0
                /\ condition' = "None"
                /\ remaining' = <<>>
                /\ x_t' = <<>>
                /\ imgs' = NoImgs
                /\ calls' = <<>>
                /\ UNCHANGED <<mgrVars, devVars, caller, default_range, sampling_range, samplingBar,
                               testBar, testArgs, outcome>>
    /\ UNCHANGED <<fd, emaVars, fnVars>>

\* an external collaborator (the prediction network, a metric, a device) raises
ExternalErrors == {"ModelError"}

RaiseException ==
    /\ pc \in {"sampling", "test_loop"}
    /\ \E e \in ExternalErrors : Propagate(e, calls)
    /\ UNCHANGED <<fd, emaVars, fnVars>>

\* the user interrupts the running loop
RaiseInterrupt ==
    /\ pc \in {"sampling", "test_loop"}
    /\ Propagate("KeyboardInterrupt", calls)
    /\ UNCHANGED <<fd, emaVars, fnVars>>


(***************************************************************************)
(* DiffusionManager.test(dataset, sampling_images=True, sampling_range=,   *)
(* empty_cache=, show_verbose=).  Without sampling_images the call is      *)
(* handed to torchmanager's Manager.test, which is not modelled.           *)
(***************************************************************************)
Test ==
    /\ constructed
    /\ pc = "idle"
    /\ \E k \in 0..MaxBatches, batch \in NoiseShapes, range \in RangeArgs,
          empty_cache \in BOOLEAN, verbose \in BOOLEAN :
         /\ testArgs' = [empty_cache |-> empty_cache,
                         range |-> IF range.given THEN range.seq ELSE DefaultRange(time_steps),
                         batch |-> batch, dflt |-> ~range.given]
         /\ batchesLeft' = k
         /\ testBar' = IF verbose THEN "open" ELSE "none"
    /\ pc' = "test_loop"
    /\ caller' = "test"
    /\ modelDevice' = "device"
    /\ cache' = "dirty"
    /\ samplingBar' = "none"
    /\ outcome' = NoOutcome
    /\ UNCHANGED <<mgrVars, num_images, condition, default_range, sampling_range, remaining, x_t, imgs, calls>>
    /\ UNCHANGED <<fd, emaVars, fnVars>>

\* one batch of "for x_test, y_test in dataset": up to the call of sampling
TestBatch ==
    /\ pc = "test_loop"
    /\ batchesLeft > 0
    /\ SamplingEnter("test", testArgs.batch[1], testArgs.batch, "x_test",
                     [given |-> TRUE, seq |-> testArgs.range], FALSE)
    /\ UNCHANGED <<mgrVars, devVars, testBar, testArgs, batchesLeft, outcome>>
    /\ UNCHANGED <<fd, emaVars, fnVars>>

\* the dataset is exhausted: "return summary", then the finally block
TestReturn ==
    /\ pc = "test_loop"
    /\ batchesLeft = 0
    /\ EndCall([CallOutcome(calls) EXCEPT !.kind = "return", !.dflt = testArgs.dflt],
               TestFinally(testArgs.empty_cache, modelDevice, cache), TestBarClosed(testBar))
    /\ UNCHANGED <<fd, emaVars, fnVars>>

\* the caller has taken the result of the call that ended
Collect ==
    /\ pc = "ended"
    /\ pc' = "idle"
    /\ outcome' = NoOutcome
    /\ samplingBar' = "none"
    /\ testBar' = "none"
    /\ fd' = NoFd
    /\ UNCHANGED <<mgrVars, devVars, caller, num_images, condition, default_range,
                   sampling_range, remaining, x_t, imgs, calls, testArgs, batchesLeft>>
    /\ UNCHANGED <<emaVars, fnVars>>

(***************************************************************************)
(* SDEManager.forward_diffusion(data, condition, t), called directly or by *)
(* train_step / test_step, which pass the input batch as the condition.    *)
(***************************************************************************)
RandIntInclusive(low, high) == low..high

\* torch.randint(low, high, ...): the values an element can take
RandInt(low, high) == low..(high - 1)

\* the t of forward_diffusion: drawn when the argument is None, else the argument
ForwardT(targ, drawn) == IF targ = <<>> THEN drawn ELSE targ

\* the DiffusionData that forward_diffusion returns: "DiffusionData(x, t)",
\* the condition parameter being left at its default
forward_diffusion(data, cond, t) ==
    LET std == Expand3(MarginalStdShape(Len(t)))
        x == Broadcast(data, Broadcast(std, data))
    IN  DiffusionData(x, t, NoCondition)

Callers == {"direct", "train_step", "test_step"}

ForwardDiffusion ==
    /\ constructed
    /\ pc = "idle"
    /\ \E who \in Callers, data \in NoiseShapes, c \in Conditions, given \in BOOLEAN :
         \E drawn \in [1..data[1] -> RandInt(0, time_steps)], v \in 0..MaxTimeSteps :
            LET cond == IF who = "direct" THEN c ELSE "x_train"
                targ == IF given THEN [b \in 1..data[1] |-> v] ELSE <<>>
                t == ForwardT(targ, drawn)
            IN  fd' = [op |-> who, given |-> cond, tgiven |-> given, data |-> data,
                       sample |-> forward_diffusion(data, cond, t)]
    /\ pc' = "ended"
    /\ outcome' = [NoOutcome EXCEPT !.op = "forward_diffusion", !.kind = "return"]
    /\ UNCHANGED <<mgrVars, devVars, caller, num_images, condition, default_range,
                   sampling_range, remaining, x_t, imgs, calls, samplingBar, testBar,
                   testArgs, batchesLeft>>
    /\ UNCHANGED <<emaVars, fnVars>>

ManagerNext ==
    \/ Construct
    \/ ForwardDiffusion
    \/ Sampling
    \/ Predict
    \/ SamplingIter
    \/ SamplingReturn
    \/ RaiseException
    \/ RaiseInterrupt
    \/ Test
    \/ TestBatch
    \/ TestReturn
    \/ Collect

Spec == Init /\ [][ManagerNext]_vars


(***************************************************************************)
(* EMAOptimizer (optim/ema.py).                                            *)
(***************************************************************************)
DecayValidInclusive(k) == 0 <= k /\ k <= DecayDen

\* the setter of ema_decay: "0.0 < value < 1.0", value being k/DecayDen
DecayValid(k) == 0 < k /\ k < DecayDen

\* the decays the callers pass, in units of 1/DecayDen: negative, 0.0, two
\* decays strictly between 0 and 1, 1.0, and greater than 1
DecayArgs == {-1, 0, 1, DecayDen - 1, DecayDen, DecayDen + 1}

\* EMAOptimizer(optimizer, model, ema_decay=k/DecayDen)
EmaConstruct ==
    /\ ~built
    /\ \E k \in DecayArgs :
         /\ last' = [NoLast EXCEPT !.op = "construct", !.arg = k, !.decay0 = ema_decay,
                        !.exc = IF DecayValid(k) THEN "none" ELSE "ValueError"]
         /\ IF DecayValid(k)
            THEN /\ ema_decay' = k
                 /\ shadow' = param
                 /\ built' = TRUE
            ELSE UNCHANGED <<ema_decay, shadow, built>>
    /\ UNCHANGED <<param, den, scopes, baseSteps>>
    /\ UNCHANGED <<managerVars, fnVars>>

\* optimizer.ema_decay = k/DecayDen
SetDecay ==
    /\ built
    /\ \E k \in DecayArgs :
         /\ last' = [NoLast EXCEPT !.op = "set_decay", !.arg = k, !.decay0 = ema_decay,
                        !.exc = IF DecayValid(k) THEN "none" ELSE "ValueError"]
         /\ ema_decay' = IF DecayValid(k) THEN k ELSE ema_decay
    /\ UNCHANGED <<built, param, shadow, den, scopes, baseSteps>>
    /\ UNCHANGED <<managerVars, fnVars>>

\* every frame of the stack learns that a parameter-writing call ran inside it
Touch(stack, step) ==
    [d \in 1..Len(stack) |->
        [stack[d] EXCEPT !.touched = TRUE, !.stepped = stack[d].stepped \/ step,
                         !.swapped = stack[d].swapped \/ ~step]]

EmaUpdateSwapped(k, s, p) == (DecayDen - k) * s + k * p

\* update_ema_parameters, one parameter: ema_param.mul_(decay).add_(param, alpha=1-decay)
\* with decay = k/DecayDen; the result is in units of 1/(den * DecayDen)
EmaUpdate(k, s, p) == k * s + (DecayDen - k) * p

\* what base_optimizer.step(closure) returns
BaseStepReturn(closure) == IF closure = "None" THEN "None" ELSE "loss"

Deltas == {[j \in Params |-> j]}

\* step(closure): the base optimizer moves every model parameter (parameter j
\* by the integer delta[j]), then update_ema_parameters runs
Step ==
    /\ built
    /\ baseSteps < MaxSteps
    /\ \E delta \in Deltas, closure \in {"None", "closure"} :
         LET pbase == [j \in Params |-> param[j] + delta[j] * den]
             loss == BaseStepReturn(closure)
         IN  /\ param' = [j \in Params |-> pbase[j] * DecayDen]
             /\ shadow' = [j \in Params |-> EmaUpdate(ema_decay, shadow[j], pbase[j])]
             /\ den' = den * DecayDen
             /\ last' = [NoLast EXCEPT !.op = "step", !.param0 = param, !.shadow0 = shadow,
                            !.den0 = den, !.pbase = pbase, !.decay0 = ema_decay,
                            !.base0 = baseSteps, !.ret = loss, !.baseRet = loss]
    /\ baseSteps' = baseSteps + 1
    /\ scopes' = Touch(scopes, TRUE)
    /\ UNCHANGED <<built, ema_decay>>
    /\ UNCHANGED <<managerVars, fnVars>>

SwapAssignInTurn(p, s) == [param |-> s, shadow |-> s]

\* swap_parameters: "param.data, ema_param.data = ema_param.data, param.data"
SwapParameters(p, s) == [param |-> s, shadow |-> p]

\* a direct call of swap_parameters() or restore_model_parameters()
Swap ==
    /\ built
    /\ LET r == SwapParameters(param, shadow)
           first == ~(last.op = "swap" /\ last.run = 1)
       IN  /\ param' = r.param
           /\ shadow' = r.shadow
           /\ last' = IF first
                      THEN [NoLast EXCEPT !.op = "swap", !.run = 1, !.param0 = param,
                                          !.shadow0 = shadow, !.den0 = den]
                      ELSE [last EXCEPT !.run = 2]
    /\ scopes' = Touch(scopes, FALSE)
    /\ UNCHANGED <<built, ema_decay, den, baseSteps>>
    /\ UNCHANGED <<managerVars, fnVars>>

\* "with optimizer.use_ema_parameters():" use_ema_parameters, then __enter__
ContextEnter(p, s) == SwapParameters(p, s)

ScopeEnter ==
    /\ built
    /\ Len(scopes) < MaxDepth
    /\ LET r == ContextEnter(param, shadow)
       IN  /\ param' = r.param
           /\ shadow' = r.shadow
    /\ scopes' = Append(scopes, [param |-> param, shadow |-> shadow, den |-> den,
                                 touched |-> FALSE, stepped |-> FALSE, swapped |-> FALSE])
    /\ last' = [NoLast EXCEPT !.op = "enter", !.param0 = param, !.shadow0 = shadow,
                              !.den0 = den]
    /\ UNCHANGED <<built, ema_decay, den, baseSteps>>
    /\ UNCHANGED <<managerVars, fnVars>>

ContextExitUnlessRaised(p, s, raised) ==
    IF raised THEN [param |-> p, shadow |-> s] ELSE SwapParameters(p, s)

\* __exit__(exc_type, exc_val, exc_tb): restore_model_parameters(); returns None
ContextExit(p, s, raised) == SwapParameters(p, s)

\* the body of the innermost scope ends, normally or by raising
ScopeExit ==
    /\ scopes # <<>>
    /\ \E raised \in BOOLEAN :
         LET r == ContextExit(param, shadow, raised)
         IN  /\ param' = r.param
             /\ shadow' = r.shadow
             /\ last' = [NoLast EXCEPT !.op = "exit", !.raised = raised,
                            !.exc = IF raised THEN "BodyError" ELSE "none",
                            !.frame = scopes[Len(scopes)]]
    /\ scopes' = SubSeq(scopes, 1, Len(scopes) - 1)
    /\ UNCHANGED <<built, ema_decay, den, baseSteps>>
    /\ UNCHANGED <<managerVars, fnVars>>

EmaNext ==
    \/ EmaConstruct
    \/ SetDecay
    \/ Step
    \/ Swap
    \/ ScopeEnter
    \/ ScopeExit

SpecEMA == Init /\ [][EmaNext]_vars

(***************************************************************************)
(* The values forward_diffusion computes for one element of the tensors:   *)
(* x = mean + std[:, None, None, None] * z; noise = z / std[...].          *)
(***************************************************************************)
\* the values of z (torch.randn_like) and of marginal_prob's mean and std > 0
Reals == {Rat(n, d) : n \in (-MaxNum)..MaxNum, d \in 1..MaxDenom}
PositiveReals == {Rat(n, d) : n \in 1..MaxNum, d \in 1..MaxDenom}

ForwardX(mean, std, z) == RAdd(mean, RMul(std, z))

ForwardNoiseUnscaled(z, std) == z

ForwardNoise(z, std) == RDiv(z, std)

ForwardValues ==
    /\ \E mean \in Reals, std \in PositiveReals, z \in Reals :
         fwdVals' = [op |-> "forward_diffusion", mean |-> mean, std |-> std, z |-> z,
                     x |-> ForwardX(mean, std, z), noise |-> ForwardNoise(z, std)]
    /\ stepVals' = NoStepVals
    /\ schedule' = NoSchedule
    /\ UNCHANGED <<managerVars, emaVars>>

(***************************************************************************)
(* BetaScheduler("linear").calculate_space(T) and the BetaSpace the test   *)
(* compares it with.  Betas are in units of 1e-4 / den.                    *)
(***************************************************************************)
\* 0.0001 and 0.01, in units of 1e-4
BetaStart == 1
BetaEnd == 100

\* the denominator of a sequence of T evenly spaced values
SpacingDen(T) == IF T > 1 THEN T - 1 ELSE 1

LinspaceOpen(start, end, steps) ==
    [k \in 1..steps |-> start * SpacingDen(steps) + ((k - 1) * (end - start) * SpacingDen(steps)) \div steps]

\* torch.linspace(start, end, steps): steps values from start to end inclusive,
\* as numerators over SpacingDen(steps)
Linspace(start, end, steps) ==
    [k \in 1..steps |-> start * SpacingDen(steps) + (k - 1) * (end - start)]

\* the linear strategy: betas[i] interpolates between start and end over
\* i in [0, T), as numerators over SpacingDen(T)
LinearStrategy(T, start, end) ==
    [k \in 1..T |-> IF T = 1 THEN start ELSE (T - k) * start + (k - 1) * end]

\* BetaSpace(betas)
BetaSpace(betas) == betas

CalculateSpace ==
    /\ \E T \in 1..MaxScheduleLen :
         schedule' = [op |-> "linear", T |-> T, den |-> SpacingDen(T),
                      betas |-> BetaSpace(LinearStrategy(T, BetaStart, BetaEnd)),
                      ref |-> BetaSpace(Linspace(BetaStart, BetaEnd, T))]
    /\ fwdVals' = NoFwdVals
    /\ stepVals' = NoStepVals
    /\ UNCHANGED <<managerVars, emaVars>>

(***************************************************************************)
(* The index arithmetic of sampling_step for one element t of data.t:      *)
(* VE (sde.py 77-79) and VP (sde.py 88-89).                                *)
(***************************************************************************)
\* sde.discrete_sigmas[k] of a VESDE, k in 0..N-1: a geometric sequence
DiscreteSigma(k) == 2 ^ k

\* indexing a tensor of length len with k: negative indices count from the end
IndexValid(len, k) == -len <= k /\ k < len
PyIndex(len, k) == IF k < 0 THEN k + len ELSE k

\* torch.where(cond, a, b), one element, both a and b already evaluated
Where(cond, a, b) == IF cond THEN a ELSE b

\* the lookups of the VE branch: the indices discrete_sigmas is read at,
\* sigma and adjacent_sigma
VELookups(timestep, N) ==
    LET reads == {timestep, timestep - 1}
        len == DiscreteSigmasLen(N)
    IN  IF \E k \in reads : ~IndexValid(len, k)
        THEN [reads |-> reads, sigma |-> 0, adjacent |-> 0, exc |-> "IndexError"]
        ELSE [reads |-> reads,
              sigma |-> DiscreteSigma(PyIndex(len, timestep)),
              adjacent |-> Where(timestep = 0, 0, DiscreteSigma(PyIndex(len, timestep - 1))),
              exc |-> "none"]

\* the lookup of the VP branch: betas.gather(-1, timestep)
VPLookups(timestep, betaLen) ==
    [reads |-> {timestep}, sigma |-> 0, adjacent |-> 0,
     exc |-> IF 0 <= timestep /\ timestep < betaLen THEN "none" ELSE "RuntimeError"]

StepValues ==
    /\ \E kind \in {"VE", "VP"}, t \in 0..MaxTimeSteps, N \in 1..MaxN, T \in 1..MaxSdeT :
         LET timestep == Timestep(t, N, T)
             r == IF IsVESDE(kind) THEN VELookups(timestep, N) ELSE VPLookups(timestep, N)
         IN  stepVals' = [op |-> "sampling_step", kind |-> kind, t |-> t, N |-> N, T |-> T,
                          timestep |-> timestep, reads |-> r.reads, sigma |-> r.sigma,
                          adjacent |-> r.adjacent, exc |-> r.exc]
    /\ fwdVals' = NoFwdVals
    /\ schedule' = NoSchedule
    /\ UNCHANGED <<managerVars, emaVars>>

ValuesNext ==
    \/ ForwardValues
    \/ CalculateSpace
    \/ StepValues

SpecValues == Init /\ [][ValuesNext]_vars

(***************************************************************************)
(* Properties of the manager.                                              *)
(***************************************************************************)
VPFamily == {"VP", "SubVP"}

\* C1: a call of sampling without a step range that returns has performed
\* exactly time_steps reverse steps, for i = time_steps, time_steps-1, ..., 1.
C1_DefaultRangePerformsTimeStepsSteps ==
    (outcome.op \in {"sampling", "predict"} /\ outcome.kind = "return" /\ outcome.dflt)
        => /\ outcome.ncalls = time_steps
           /\ outcome.hist = PyRange(time_steps, 0, -1)

\* C2: the list sampling returns has exactly num_images elements, for every
\* seed noise whose batch size is at least num_images.
C2_ReturnsNumImagesSamples ==
    (outcome.op \in {"sampling", "predict"} /\ outcome.kind = "return"
        /\ outcome.seed[1] >= outcome.n)
        => outcome.len = outcome.n

C9_PredictWrapsAfterCleanup ==
    (outcome.op = "predict" /\ outcome.where = "try") =>
        /\ modelDevice = "cpu"
        /\ cache = "empty"
        /\ outcome.kind \in {"return", "raise"}
        /\ IsException(outcome.origin) =>
              /\ outcome.kind = "raise"
              /\ outcome.exc = "PredictionError"
              /\ outcome.cause = outcome.origin
        /\ outcome.origin = "none" => outcome.kind = "return"

C9_Witness ==
    /\ outcome.op = "predict"
    /\ outcome.where = "try"
    /\ outcome.exc = "PredictionError"
    /\ outcome.cause = "ModelError"
    /\ modelDevice = "cpu"

\* C10: a user interrupt raised while predict's or test's loop runs is not
\* propagated: the call returns (an empty or partial result).
C10_InterruptNeverPropagates ==
    (outcome.op \in {"predict", "test"} /\ outcome.origin = "KeyboardInterrupt")
        => outcome.kind = "return"


(***************************************************************************)
(* Properties of the EMA optimizer.                                        *)
(***************************************************************************)
Restored(f) == param = f.param /\ shadow = f.shadow /\ den = f.den

C4_SwapIsInvolution ==
    last.op = "swap" =>
        /\ last.run = 1 => (param = last.shadow0 /\ shadow = last.param0)
        /\ last.run = 2 => (param = last.param0 /\ shadow = last.shadow0)
        /\ den = last.den0

C4_Witness ==
    /\ last.op = "swap"
    /\ last.run = 2
    /\ param # shadow

\* C5: at most one use_ema_parameters scope of the optimizer is active.
C5_AtMostOneScope == Len(scopes) <= 1

\* C6: step calls the base optimizer's step once, then sets every shadow
\* parameter to decay*shadow_old + (1-decay)*param, param being the model
\* parameter after the base step, leaves the model parameters as the base
\* step left them, and returns what the base step returned.
C6_StepUpdatesShadow ==
    last.op = "step" =>
        /\ baseSteps = last.base0 + 1
        /\ last.ret = last.baseRet
        /\ \A j \in Params :
              /\ shadow[j] * DecayDen * last.den0 =
                    (last.decay0 * last.shadow0[j]
                        + (DecayDen - last.decay0) * last.pbase[j]) * den
              /\ param[j] * last.den0 = last.pbase[j] * den

C6_Witness ==
    /\ last.op = "step"
    /\ last.decay0 = 1
    /\ last.ret = "loss"
    /\ param # shadow

\* C7: constructing the wrapper or assigning ema_decay with a decay that is
\* not strictly between 0 and 1 fails with ValueError and leaves the decay
\* as it was; every decay strictly between 0 and 1 is accepted.
C7_DecayValidated ==
    last.op \in {"construct", "set_decay"} =>
        /\ (last.exc = "ValueError") = ~(0 < last.arg /\ last.arg < DecayDen)
        /\ last.exc = "ValueError" =>
              (ema_decay = last.decay0 /\ (last.op = "construct" => ~built))
        /\ last.exc # "ValueError" => (last.exc = "none" /\ ema_decay = last.arg /\ built)

C7_Witness ==
    /\ last.op = "set_decay"
    /\ last.exc = "ValueError"
    /\ last.arg = DecayDen
    /\ ema_decay = 1

\* C20: when a use_ema_parameters scope inside which step() was called (and
\* swap_parameters() was not called directly) ends, the model holds the
\* trainable weights it held when the scope was entered, unchanged.
C20_StepInScopeKeepsTrainableWeights ==
    (last.op = "exit" /\ last.frame.stepped /\ ~last.frame.swapped) =>
        \A j \in Params : param[j] * last.frame.den = last.frame.param[j] * den

(***************************************************************************)
(* Resources of the manager's calls.                                       *)
(***************************************************************************)
\* C11: when a call of sampling, predict or test (with sampling) has ended,
\* by returning or by raising, no progress bar it opened is still open, and
\* the model that predict or test moved to the device is back on the CPU
\* with the device cache emptied.
C11_ResourcesReleased ==
    (pc = "ended" /\ outcome.op \in {"sampling", "predict", "test"}) =>
        /\ samplingBar # "open"
        /\ testBar # "open"
        /\ (outcome.op \in {"predict", "test"} /\ outcome.where = "try") =>
              (modelDevice = "cpu" /\ cache = "empty")

(***************************************************************************)
(* Properties of forward diffusion.                                        *)
(***************************************************************************)
\* C12: the sample forward_diffusion returns carries the condition the call
\* was given (None only when None was given), the x_t of the data's shape
\* and the t used; the sample built by train_step / test_step carries the
\* input batch as its condition.
C12_ForwardDiffusionCarriesCondition ==
    fd.op # "none" =>
        /\ fd.sample.condition = fd.given
        /\ fd.sample.x = fd.data
        /\ Len(fd.sample.t) = fd.data[1]
        /\ fd.op \in {"train_step", "test_step"} => fd.sample.condition = "x_train"

\* C13 as claimed: for the x_t and the noise forward_diffusion computes from
\* mean, std > 0 and z, noise*std + mean equals x_t.
C13_NoiseTimesStdPlusMean ==
    fwdVals.op = "forward_diffusion" =>
        REq(RAdd(RMul(fwdVals.noise, fwdVals.std), fwdVals.mean), fwdVals.x)

\* C13 as amended: noise*std equals z, so noise*std*std + mean equals x_t,
\* and noise*std + mean equals z + mean.
C13_NoiseTimesStdSquaredPlusMean ==
    fwdVals.op = "forward_diffusion" =>
        /\ REq(RMul(fwdVals.noise, fwdVals.std), fwdVals.z)
        /\ REq(RAdd(RMul(RMul(fwdVals.noise, fwdVals.std), fwdVals.std), fwdVals.mean),
               fwdVals.x)
        /\ REq(RAdd(RMul(fwdVals.noise, fwdVals.std), fwdVals.mean),
               RAdd(fwdVals.z, fwdVals.mean))

C13_Witness ==
    /\ fwdVals.op = "forward_diffusion"
    /\ ~REq(fwdVals.std, ROne)
    /\ ~REq(fwdVals.z, RZero)
    /\ ~REq(fwdVals.mean, RZero)
    /\ ~REq(fwdVals.noise, fwdVals.z)

(***************************************************************************)
(* Properties of the reverse sampling loop.                                *)
(***************************************************************************)
\* C14: with a seed noise of num_images elements, every sampling_step of
\* the loop returns a tensor of the shape of its input, for every SDE
\* variant, so every returned sample has the shape of one seed element.
C14_StepKeepsShape ==
    /\ (pc = "sampling" /\ x_t[1] = num_images) => imgs.shape = x_t
    /\ (outcome.op \in {"sampling", "predict"} /\ outcome.kind = "return"
            /\ outcome.seed[1] = outcome.n)
          => outcome.elem = Tail(outcome.seed)

(***************************************************************************)
(* Properties of the schedule.                                             *)
(***************************************************************************)
\* C15: the linear strategy with T time steps and the range [1e-4, 1e-2]
\* gives T betas that start at 1e-4, end at 1e-2 (for T > 1), are evenly
\* spaced, and equal torch.linspace(1e-4, 1e-2, T) element for element.
C15_LinearScheduleIsLinspace ==
    schedule.op = "linear" =>
        /\ Len(schedule.betas) = schedule.T
        /\ Len(schedule.ref) = schedule.T
        /\ \A k \in 1..schedule.T : schedule.betas[k] = schedule.ref[k]
        /\ schedule.betas[1] = BetaStart * schedule.den
        /\ schedule.T > 1 => schedule.betas[schedule.T] = BetaEnd * schedule.den
        /\ \A k \in 2..schedule.T :
              schedule.betas[k] - schedule.betas[k - 1] = BetaEnd - BetaStart

C15_Witness ==
    /\ schedule.op = "linear"
    /\ schedule.T = MaxScheduleLen
    /\ schedule.betas[2] # schedule.betas[1]

\* the result of the sampling_step call c of the running loop
StepResult(c) ==
    [shape |-> sampling_step(sde, is_continous, sdeN, sdeT, beta_space, c.x.shape,
                             c.tlen, c.i).shape,
     hist |-> Append(c.x.hist, c.i)]

\* C16: while the loop runs, the indices of the steps made so far followed
\* by the indices still to come are the given range; every step was given
\* t = its index for each of the num_images elements and the condition of
\* the call; the first step was given the seed noise and every later step
\* the output of the step before; imgs is the output of the last step.
\* When sampling returns, it has made one step per index of the range, in
\* the range's order.
C16_LoopIsSequential ==
    /\ pc = "sampling" =>
          /\ [k \in 1..Len(calls) |-> calls[k].i] \o remaining = sampling_range
          /\ \A k \in 1..Len(calls) :
                /\ calls[k].tval = calls[k].i
                /\ calls[k].tlen = num_images
                /\ calls[k].condition = condition
                /\ calls[k].x = IF k = 1 THEN [shape |-> x_t, hist |-> <<>>]
                                ELSE StepResult(calls[k - 1])
          /\ imgs = IF calls = <<>> THEN [shape |-> x_t, hist |-> <<>>]
                    ELSE StepResult(calls[Len(calls)])
    /\ (outcome.op \in {"sampling", "predict"} /\ outcome.kind = "return") =>
          (outcome.hist = outcome.range /\ outcome.ncalls = Len(outcome.range))

C16_Witness ==
    /\ pc = "sampling"
    /\ Len(calls) = 2
    /\ remaining = <<>>
    /\ condition = "c"
    /\ calls[2].x.hist = <<calls[1].i>>

C18_AdjacentSigmaWithoutNegativeIndex ==
    (stepVals.op = "sampling_step" /\ stepVals.kind = "VE" /\ stepVals.exc = "none") =>
        /\ stepVals.timestep = 0 =>
              (stepVals.adjacent = 0 /\ \A k \in stepVals.reads : k >= 0)
        /\ stepVals.timestep > 0 =>
              stepVals.adjacent = DiscreteSigma(stepVals.timestep - 1)

\* C19: in the VE and VP steps timestep is the integer nearest to
\* t*(N-1)/T, that is |t*(N-1)/T - timestep| <= 1/2.
C19_TimestepIsNearestInteger ==
    stepVals.op = "sampling_step" =>
        LET diff == stepVals.t * (stepVals.N - 1) - stepVals.timestep * stepVals.T
        IN  2 * diff <= stepVals.T /\ -2 * diff <= stepVals.T

\* C21: during reverse sampling with a VE or VP SDE of terminal time T = 1,
\* for every index i in time_steps..1 that the loop is about to pass to
\* sampling_step (with t = i), the discrete index computed from t lies in
\* [0, N), so discrete_sigmas[timestep] and betas[timestep] are in range.
C21_DiscreteIndexInRange ==
    (pc = "sampling" /\ (IsVESDE(sde) \/ IsVPSDE(sde)) /\ sdeT = 1 /\ remaining # <<>>
        /\ 1 <= Head(remaining) /\ Head(remaining) <= time_steps) =>
        LET timestep == Timestep(Head(remaining), sdeN, sdeT)
        IN  0 <= timestep /\ timestep < sdeN

============================================================================
